---- MODULE Spec2Model ----
(***************************************************************************)
(* A* pathfinding on a 2D grid (src/pathfinding.js): classes Node, Grid    *)
(* and Pathfinder.  A node reference is the index <<x, y>> of the node in  *)
(* Grid.nodes; Null is the JavaScript null.                                *)
(***************************************************************************)
EXTENDS Integers, Sequences, FiniteSets

VARIABLES width, height, nodes,
          pc, openSet, closedSet, startNode, endNode, current,
          args, lastOp, outcome, ret, prev

vars == <<width, height, nodes, pc, openSet, closedSet, startNode, endNode,
          current, args, lastOp, outcome, ret, prev>>

\* ---------------------------------------------------------------- bounds
MaxWidth == 3
MaxHeight == 2
MaxBlocked == 2
SeqCells == 4
SeqBlocked == 1
OpenMax == 5
DiagWidth == 4
DiagHeight == 3
DetourBlocked == 2

\* ------------------------------------------------------------ data model
Null == <<>>

Abs(n) == IF n < 0 THEN -n ELSE n

Node(x, y, walkable) ==
  [x |-> x, y |-> y, walkable |-> walkable, g |-> 0, h |-> 0, f |-> 0,
   parent |-> Null]

InitializeGrid(w, h) ==
  [c \in (0..(w - 1)) \X (0..(h - 1)) |-> Node(c[1], c[2], TRUE)]

\* ------------------------------------------------------------------ Grid
IsInBounds_OffByOne(x, y) == x >= 0 /\ x <= width /\ y >= 0 /\ y < height

IsInBounds(x, y) == x >= 0 /\ x < width /\ y >= 0 /\ y < height

\* nodes[y][x] is undefined outside the arrays; reading a property of
\* undefined raises a TypeError.
HasNode(ns, x, y) == <<x, y>> \in DOMAIN ns

IsWalkableThrows(ns, x, y) == IsInBounds(x, y) /\ ~HasNode(ns, x, y)

IsWalkable_BoundsOnly(ns, x, y) == IsInBounds(x, y)

IsWalkable(ns, x, y) == IsInBounds(x, y) /\ ns[<<x, y>>].walkable

GetNode(ns, x, y) == IF IsWalkable(ns, x, y) THEN <<x, y>> ELSE Null

SetWalkableThrows(ns, x, y) == IsInBounds(x, y) /\ ~HasNode(ns, x, y)

SetWalkableNodes_NewNode(ns, x, y, walkable) ==
  IF IsInBounds(x, y)
    THEN [ns EXCEPT ![<<x, y>>] = Node(x, y, walkable)]
    ELSE ns

SetWalkableNodes(ns, x, y, walkable) ==
  IF IsInBounds(x, y)
    THEN [ns EXCEPT ![<<x, y>>] = [@ EXCEPT !.walkable = walkable]]
    ELSE ns

Directions_NoWest(diagonal) ==
  <<  <<0, -1>>, <<1, 0>>, <<0, 1>>, <<1, 0>>  >>
  \o (IF diagonal
        THEN <<  <<1, -1>>, <<1, 1>>, <<-1, 1>>, <<-1, -1>>  >>
        ELSE <<>>)

Directions_AlwaysDiagonal(diagonal) ==
  <<  <<0, -1>>, <<1, 0>>, <<0, 1>>, <<-1, 0>>,
      <<1, -1>>, <<1, 1>>, <<-1, 1>>, <<-1, -1>>  >>

Directions_SouthEastFirst(diagonal) ==
  <<  <<0, -1>>, <<1, 0>>, <<0, 1>>, <<-1, 0>>  >>
  \o (IF diagonal
        THEN <<  <<1, 1>>, <<1, -1>>, <<-1, 1>>, <<-1, -1>>  >>
        ELSE <<>>)

Directions(diagonal) ==
  <<  <<0, -1>>, <<1, 0>>, <<0, 1>>, <<-1, 0>>  >>
  \o (IF diagonal
        THEN <<  <<1, -1>>, <<1, 1>>, <<-1, 1>>, <<-1, -1>>  >>
        ELSE <<>>)

GetNeighbors(ns, node, diagonal) ==
  LET directions == Directions(diagonal)
      candidate == [i \in 1..Len(directions) |->
                      GetNode(ns, ns[node].x + directions[i][1],
                                  ns[node].y + directions[i][2])]
      IsNode(n) == n # Null
  IN  SelectSeq(candidate, IsNode)

\* getNeighbors raises the TypeError of the getNode call that raises one.
GetNeighborsThrows(ns, node, diagonal) ==
  LET directions == Directions(diagonal)
  IN  \E i \in 1..Len(directions) :
        IsWalkableThrows(ns, ns[node].x + directions[i][1],
                             ns[node].y + directions[i][2])

Reset_KeepParent(ns) ==
  [c \in DOMAIN ns |-> [ns[c] EXCEPT !.g = 0, !.h = 0, !.f = 0]]

Reset_SkipBlocked(ns) ==
  [c \in DOMAIN ns |->
     IF ns[c].walkable
       THEN [ns[c] EXCEPT !.g = 0, !.h = 0, !.f = 0, !.parent = Null]
       ELSE ns[c]]

\* The loops of reset visit the positions (x, y) with y < height and
\* x < width, rows first; the first one for which nodes[y][x] is undefined
\* raises a TypeError.
ResetThrows(ns) ==
  ~(((0..(width - 1)) \X (0..(height - 1))) \subseteq DOMAIN ns)

\* The loops of reset reach the node c before any position that raises.
ResetReaches(ns, c) ==
  /\ IsInBounds(c[1], c[2])
  /\ \A y \in 0..(height - 1) : \A x \in 0..(width - 1) :
       ~HasNode(ns, x, y) => (c[2] < y \/ (c[2] = y /\ c[1] < x))

Reset(ns) ==
  IF ResetThrows(ns)
    THEN [c \in DOMAIN ns |->
            IF ResetReaches(ns, c)
              THEN [ns[c] EXCEPT !.g = 0, !.h = 0, !.f = 0, !.parent = Null]
              ELSE ns[c]]
    ELSE [c \in DOMAIN ns |->
            IF IsInBounds(c[1], c[2])
              THEN [ns[c] EXCEPT !.g = 0, !.h = 0, !.f = 0, !.parent = Null]
              ELSE ns[c]]

\* ------------------------------------------------------------ Pathfinder
Heuristic_Chebyshev(ns, nodeA, nodeB) ==
  LET dx == Abs(ns[nodeA].x - ns[nodeB].x)
      dy == Abs(ns[nodeA].y - ns[nodeB].y)
  IN  IF dx > dy THEN dx ELSE dy

Heuristic(ns, nodeA, nodeB) ==
  Abs(ns[nodeA].x - ns[nodeB].x) + Abs(ns[nodeA].y - ns[nodeB].y)

Includes(seq, e) == \E i \in 1..Len(seq) : seq[i] = e

Splice(seq, i) ==
  [j \in 1..(Len(seq) - 1) |-> IF j < i THEN seq[j] ELSE seq[j + 1]]

RECURSIVE LowestF_Greater(_, _, _, _)
LowestF_Greater(ns, open, i, currentIndex) ==
  IF i > Len(open)
    THEN currentIndex
    ELSE LowestF_Greater(ns, open, i + 1,
                         IF ns[open[i]].f > ns[open[currentIndex]].f
                           THEN i ELSE currentIndex)

RECURSIVE LowestF_LastTie(_, _, _, _)
LowestF_LastTie(ns, open, i, currentIndex) ==
  IF i > Len(open)
    THEN currentIndex
    ELSE LowestF_LastTie(ns, open, i + 1,
                         IF ns[open[i]].f <= ns[open[currentIndex]].f
                           THEN i ELSE currentIndex)

\* The scan of lines 137-146, from position i with the best index so far.
RECURSIVE LowestF(_, _, _, _)
LowestF(ns, open, i, currentIndex) ==
  IF i > Len(open)
    THEN currentIndex
    ELSE LowestF(ns, open, i + 1,
                 IF ns[open[i]].f < ns[open[currentIndex]].f
                   THEN i ELSE currentIndex)

SelectIndex(ns, open) == LowestF(ns, open, 2, 1)

IsGoal(node, goal) == node = goal

NewClosedSet_Stale == closedSet

NewClosedSet == {}

StartG == 0

TentativeG_NoStep(ns, cur) == ns[cur].g

TentativeG(ns, cur) == ns[cur].g + 1

InClosed_Never(closed, node) == FALSE

InClosed(closed, node) == node \in closed

NoImprovement_Strict(tentativeG, neighborG) == tentativeG > neighborG

NoImprovement(tentativeG, neighborG) == tentativeG >= neighborG

\* One pass of the body of the neighbor loop (lines 158-173) over the search
\* state st = [nodes, openSet].
VisitNeighbor(st, neighbor, cur, closed, goal) ==
  IF InClosed(closed, neighbor)
    THEN st
    ELSE LET tentativeG == TentativeG(st.nodes, cur)
             inOpen == Includes(st.openSet, neighbor)
             h == Heuristic(st.nodes, neighbor, goal)
         IN  IF inOpen /\ NoImprovement(tentativeG, st.nodes[neighbor].g)
               THEN st
               ELSE [nodes |-> [st.nodes EXCEPT ![neighbor] =
                                  [@ EXCEPT !.parent = cur,
                                            !.g = tentativeG,
                                            !.h = h,
                                            !.f = tentativeG + h]],
                     openSet |-> IF inOpen THEN st.openSet
                                 ELSE Append(st.openSet, neighbor)]

RECURSIVE VisitNeighbors(_, _, _, _, _, _)
VisitNeighbors(st, neighbors, i, cur, closed, goal) ==
  IF i > Len(neighbors)
    THEN st
    ELSE VisitNeighbors(VisitNeighbor(st, neighbors[i], cur, closed, goal),
                        neighbors, i + 1, cur, closed, goal)

Coordinate_XOnly(ns, node) == [x |-> ns[node].x, y |-> 0]

Coordinate(ns, node) == [x |-> ns[node].x, y |-> ns[node].y]

Unshift_Push(path, e) == Append(path, e)

Unshift(path, e) == <<e>> \o path

\* The loop of lines 190-193.  It does not end when the parent references
\* form a cycle: the walk is then cut once the path holds more coordinates
\* than there are nodes, which Diverged recognises.
Diverged(ns, path) == Len(path) > Cardinality(DOMAIN ns)

RECURSIVE Walk(_, _, _)
Walk(ns, cur, path) ==
  IF cur = Null
    THEN path
    ELSE IF Diverged(ns, path)
           THEN path
           ELSE Walk(ns, ns[cur].parent, Unshift(path, Coordinate(ns, cur)))

ReconstructPath(ns, node) == Walk(ns, node, <<>>)

\* ------------------------------------------------------------ operations
NoArgs == [startX |-> 0, startY |-> 0, endX |-> 0, endY |-> 0,
           diagonal |-> FALSE]

NoPrev == [valid |-> FALSE, ret |-> <<>>, stale |-> FALSE]

\* Some unwalkable cell still carries the parent an earlier search gave it.
StaleBlockedCell(ns) ==
  \E c \in DOMAIN ns : ~ns[c].walkable /\ ns[c].parent # Null

Construct(w, h) ==
  /\ width = w
  /\ height = h
  /\ nodes = InitializeGrid(w, h)
  /\ pc = "idle"
  /\ openSet = <<>>
  /\ closedSet = {}
  /\ startNode = Null
  /\ endNode = Null
  /\ current = Null
  /\ args = NoArgs
  /\ lastOp = "new"
  /\ outcome = "returned"
  /\ ret = <<>>
  /\ prev = NoPrev

\* Lines 48-52.  The locals of a finished findPath call (openSet, closedSet,
\* startNode, endNode, current) and its arguments and result are kept until
\* the next operation starts.
SetWalkable(x, y, walkable) ==
  /\ pc = "idle"
  /\ lastOp' = "setWalkable"
  /\ IF SetWalkableThrows(nodes, x, y)
       THEN /\ outcome' = "threw"
            /\ nodes' = nodes
       ELSE /\ outcome' = "returned"
            /\ nodes' = SetWalkableNodes(nodes, x, y, walkable)
  /\ ret' = <<>>
  /\ args' = NoArgs
  /\ prev' = NoPrev
  /\ openSet' = <<>>
  /\ closedSet' = {}
  /\ startNode' = Null
  /\ endNode' = Null
  /\ current' = Null
  /\ UNCHANGED <<width, height, pc>>

\* Lines 92-102: a call of the public method reset.  It clears the scratch
\* fields of the nodes; the locals and the result of an earlier findPath call
\* are gone, as after setWalkable.
ResetCall ==
  /\ pc = "idle"
  /\ lastOp' = "reset"
  /\ nodes' = Reset(nodes)
  /\ outcome' = IF ResetThrows(nodes) THEN "threw" ELSE "returned"
  /\ ret' = <<>>
  /\ args' = NoArgs
  /\ prev' = NoPrev
  /\ openSet' = <<>>
  /\ closedSet' = {}
  /\ startNode' = Null
  /\ endNode' = Null
  /\ current' = Null
  /\ UNCHANGED <<width, height, pc>>

\* Lines 119-134: reset, endpoint lookup, early return or initialisation.
\* ns is the array of nodes after the reset of line 120.
FindPath(startX, startY, endX, endY, diagonal) ==
  \E ns \in {Reset(nodes)} :
  LET a == [startX |-> startX, startY |-> startY, endX |-> endX,
            endY |-> endY, diagonal |-> diagonal]
      s == GetNode(ns, startX, startY)
      e == GetNode(ns, endX, endY)
      h == Heuristic(ns, s, e)
  IN  /\ pc = "idle"
      /\ lastOp' = "findPath"
      /\ args' = a
      /\ prev' = LET same == lastOp = "findPath" /\ outcome = "returned"
                                /\ args = a
                  IN  [valid |-> same,
                       ret |-> IF same THEN ret ELSE <<>>,
                       stale |-> StaleBlockedCell(nodes)]
      /\ current' = Null
      /\ UNCHANGED <<width, height>>
      /\ IF \/ ResetThrows(nodes)
            \/ IsWalkableThrows(ns, startX, startY)
            \/ IsWalkableThrows(ns, endX, endY)
           THEN /\ nodes' = ns
                /\ outcome' = "threw"
                /\ ret' = <<>>
                /\ pc' = "idle"
                /\ openSet' = <<>>
                /\ closedSet' = {}
                /\ startNode' = Null
                /\ endNode' = Null
           ELSE /\ startNode' = s
                /\ endNode' = e
                /\ IF s = Null \/ e = Null
                     THEN /\ nodes' = ns
                          /\ outcome' = "returned"
                          /\ ret' = <<>>
                          /\ pc' = "idle"
                          /\ openSet' = <<>>
                          /\ closedSet' = {}
                     ELSE /\ openSet' = <<s>>
                          /\ closedSet' = NewClosedSet
                          /\ nodes' = [ns EXCEPT ![s] =
                                         [@ EXCEPT !.g = StartG, !.h = h,
                                                   !.f = h]]
                          /\ outcome' = "running"
                          /\ ret' = <<>>
                          /\ pc' = "loop"

\* Lines 136-175: one iteration of the while loop.
LoopIteration ==
  /\ pc = "loop"
  /\ Len(openSet) > 0
  /\ LET currentIndex == SelectIndex(nodes, openSet)
         cur == openSet[currentIndex]
     IN  /\ current' = cur
         /\ IF IsGoal(cur, endNode)
              THEN LET path == ReconstructPath(nodes, endNode)
                   IN  /\ outcome' = IF Diverged(nodes, path) THEN "diverged"
                                     ELSE "returned"
                       /\ ret' = IF Diverged(nodes, path) THEN <<>> ELSE path
                       /\ pc' = "idle"
                       /\ UNCHANGED <<nodes, openSet, closedSet>>
              ELSE IF GetNeighborsThrows(nodes, cur, args.diagonal)
              THEN /\ outcome' = "threw"
                   /\ ret' = <<>>
                   /\ pc' = "idle"
                   /\ openSet' = Splice(openSet, currentIndex)
                   /\ closedSet' = closedSet \cup {cur}
                   /\ UNCHANGED nodes
              ELSE LET open1 == Splice(openSet, currentIndex)
                       closed1 == closedSet \cup {cur}
                       neighbors == GetNeighbors(nodes, cur, args.diagonal)
                       st == VisitNeighbors(
                               [nodes |-> nodes, openSet |-> open1],
                               neighbors, 1, cur, closed1, endNode)
                   IN  /\ nodes' = st.nodes
                       /\ openSet' = st.openSet
                       /\ closedSet' = closed1
                       /\ UNCHANGED <<outcome, ret, pc>>
  /\ UNCHANGED <<width, height, startNode, endNode, args, lastOp, prev>>

\* Lines 136, 177-178: the open set is empty, no path found.
LoopExit ==
  /\ pc = "loop"
  /\ Len(openSet) = 0
  /\ outcome' = "returned"
  /\ ret' = <<>>
  /\ pc' = "idle"
  /\ UNCHANGED <<width, height, nodes, openSet, closedSet, startNode,
                 endNode, current, args, lastOp, prev>>

\* ------------------------------------------------------- specifications
Coords(n) == (-1)..n

Blocked(ns) == {c \in DOMAIN ns : ~ns[c].walkable}

\* Spec: a grid of up to MaxWidth x MaxHeight is configured with up to
\* MaxBlocked blocked cells and then queried once.
Init == \E w \in 1..MaxWidth, h \in 1..MaxHeight : Construct(w, h)

Configure ==
  /\ lastOp # "findPath"
  /\ \E x \in Coords(width), y \in Coords(height), v \in BOOLEAN :
       /\ SetWalkable(x, y, v)
       /\ Cardinality(Blocked(nodes')) <= MaxBlocked

\* The cells and one position beyond each of the four borders.
QueryPositions ==
  ((0..(width - 1)) \X (0..(height - 1)))
    \cup {<<-1, 0>>, <<0, -1>>, <<width, 0>>, <<0, height>>}

Query ==
  /\ lastOp # "findPath"
  /\ \E s \in QueryPositions, e \in QueryPositions, d \in BOOLEAN :
       FindPath(s[1], s[2], e[1], e[2], d)

Next == Configure \/ Query \/ LoopIteration \/ LoopExit

Spec == Init /\ [][Next]_vars

\* SpecSeq: any sequence of mutations, resets and queries on a grid of up to
\* SeqCells cells with up to SeqBlocked blocked cells.  Coordinates are those
\* of the cells and of two positions outside the grid.
SeqPositions ==
  ((0..(width - 1)) \X (0..(height - 1))) \cup {<<-1, 0>>, <<width, height>>}

InitSeq ==
  \E w \in 1..SeqCells, h \in 1..SeqCells :
    w * h <= SeqCells /\ Construct(w, h)

SeqConfigure ==
  \E p \in SeqPositions, v \in BOOLEAN :
    /\ SetWalkable(p[1], p[2], v)
    /\ Cardinality(Blocked(nodes')) <= SeqBlocked

SeqQuery ==
  \E s \in SeqPositions, e \in SeqPositions, d \in BOOLEAN :
    FindPath(s[1], s[2], e[1], e[2], d)

SeqReset == ResetCall

NextSeq ==
  SeqConfigure \/ SeqReset \/ SeqQuery \/ LoopIteration \/ LoopExit

SpecSeq == InitSeq /\ [][NextSeq]_vars

\* SpecOpen: a grid of up to OpenMax x OpenMax without blocked cells is
\* queried once with in-bounds endpoints.  The loop never finds the open set
\* empty on such a grid (OpenSearchNeverExhausts), so LoopExit has no step.
InitOpen == \E w \in 1..OpenMax, h \in 1..OpenMax : Construct(w, h)

OpenQuery ==
  /\ lastOp # "findPath"
  /\ \E sx \in 0..(width - 1), sy \in 0..(height - 1),
        ex \in 0..(width - 1), ey \in 0..(height - 1), d \in BOOLEAN :
       FindPath(sx, sy, ex, ey, d)

NextOpen == OpenQuery \/ LoopIteration

SpecOpen == InitOpen /\ [][NextOpen]_vars

\* SpecDiag: a grid of up to DiagWidth x DiagHeight is configured with at
\* most one setWalkable call and then queried once, with diagonal movement
\* and in-bounds endpoints.
InitDiag == \E w \in 1..DiagWidth, h \in 1..DiagHeight : Construct(w, h)

DiagConfigure ==
  /\ lastOp = "new"
  /\ \E x \in 0..(width - 1), y \in 0..(height - 1), v \in BOOLEAN :
       SetWalkable(x, y, v)

DiagQuery ==
  /\ lastOp # "findPath"
  /\ \E sx \in 0..(width - 1), sy \in 0..(height - 1),
        ex \in 0..(width - 1), ey \in 0..(height - 1) :
       FindPath(sx, sy, ex, ey, TRUE)

NextDiag == DiagConfigure \/ DiagQuery \/ LoopIteration \/ LoopExit

SpecDiag == InitDiag /\ [][NextDiag]_vars

\* SpecDetour: up to DetourBlocked cells of a grid of up to DiagWidth x
\* DiagHeight are blocked, in row-major order, and the grid is then queried
\* once, in either movement mode, from any cell to the cell (0, 0).
RowMajor(c) == c[1] + width * c[2]

InitDetour == \E w \in 1..DiagWidth, h \in 1..DiagHeight : Construct(w, h)

DetourConfigure ==
  /\ lastOp # "findPath"
  /\ \E c \in DOMAIN nodes :
       /\ \A b \in Blocked(nodes) : RowMajor(b) < RowMajor(c)
       /\ SetWalkable(c[1], c[2], FALSE)
       /\ Cardinality(Blocked(nodes')) <= DetourBlocked

DetourQuery ==
  /\ lastOp # "findPath"
  /\ \E s \in DOMAIN nodes, d \in BOOLEAN : FindPath(s[1], s[2], 0, 0, d)

NextDetour == DetourConfigure \/ DetourQuery \/ LoopIteration \/ LoopExit

SpecDetour == InitDetour /\ [][NextDetour]_vars

\* ------------------------------------------------- vocabulary of the claims
\* These definitions restate the grid geometry on their own, without the
\* operators of the program.
InGrid(x, y) == x \in 0..(width - 1) /\ y \in 0..(height - 1)

OpenCell(x, y) == InGrid(x, y) /\ nodes[<<x, y>>].walkable

OpenCells == {c \in DOMAIN nodes : nodes[c].walkable}

\* A findPath call has finished and nothing was called since.
Returned == pc = "idle" /\ lastOp = "findPath"

StartPos == <<args.startX, args.startY>>

EndPos == <<args.endX, args.endY>>

ValidEndpoints ==
  OpenCell(args.startX, args.startY) /\ OpenCell(args.endX, args.endY)

\* One permitted step between two positions.
StepAllowed(a, b, diagonal) ==
  LET dx == Abs(a[1] - b[1])
      dy == Abs(a[2] - b[2])
  IN  \/ (dx = 1 /\ dy = 0)
      \/ (dx = 0 /\ dy = 1)
      \/ (diagonal /\ dx = 1 /\ dy = 1)

\* The open cells within d steps of the cells of S, for growing d, until
\* nothing is added.
RECURSIVE ReachFrom(_, _)
ReachFrom(S, diagonal) ==
  LET grown == S \cup {c \in OpenCells :
                         \E a \in S : StepAllowed(a, c, diagonal)}
  IN  IF grown = S THEN S ELSE ReachFrom(grown, diagonal)

Reachable(a, b, diagonal) == b \in ReachFrom({a}, diagonal)

\* The least number of steps from a cell of S to target, given that the
\* cells of S are within d steps of the origin; -1 when S does not reach it.
RECURSIVE StepsTo(_, _, _, _)
StepsTo(S, target, diagonal, d) ==
  LET grown == S \cup {c \in OpenCells :
                         \E a \in S : StepAllowed(a, c, diagonal)}
  IN  IF target \in S THEN d
      ELSE IF grown = S THEN -1
      ELSE StepsTo(grown, target, diagonal, d + 1)

Distance(a, b, diagonal) == StepsTo({a}, b, diagonal, 0)

Pos(coordinate) == <<coordinate.x, coordinate.y>>

TypeOK ==
  /\ pc \in {"idle", "loop"}
  /\ outcome \in {"returned", "threw", "diverged", "running"}
  /\ lastOp \in {"new", "setWalkable", "reset", "findPath"}

\* ---------------------------------------------------------------- claims
\* C1: a findPath call whose start or end is out of bounds or unwalkable
\* returns the empty sequence and raises no error, in both movement modes.
C1_InvalidEndpointsReturnEmpty ==
  (Returned /\ ~ValidEndpoints) => (outcome = "returned" /\ ret = <<>>)

C1_Witness ==
  /\ Returned
  /\ outcome = "returned"
  /\ ret = <<>>
  /\ InGrid(args.startX, args.startY)
  /\ ~nodes[StartPos].walkable
  /\ ~InGrid(args.endX, args.endY)
  /\ args.endX = width
  /\ args.diagonal

\* C2: findPath returns a non-empty path exactly when both endpoints are in
\* bounds and walkable and the end is reachable from the start through
\* walkable cells in the selected movement mode; a start whose neighbors are
\* all blocked yields the empty path for a different end.
C2_NonEmptyIffReachable ==
  Returned =>
    /\ outcome = "returned"
    /\ (ret # <<>>) <=>
         (ValidEndpoints /\ Reachable(StartPos, EndPos, args.diagonal))

C2_Witness ==
  /\ Returned
  /\ ValidEndpoints
  /\ StartPos # EndPos
  /\ ReachFrom({StartPos}, args.diagonal) = {StartPos}
  /\ Cardinality(closedSet) = 1
  /\ ret = <<>>

\* C3: with diagonal = false a non-empty returned path has the minimum
\* number of steps among the 4-directional walkable paths from start to end.
C3_ShortestOrthogonalPath ==
  (Returned /\ ~args.diagonal /\ ret # <<>>)
    => Len(ret) - 1 = Distance(StartPos, EndPos, FALSE)

C3_Witness ==
  /\ Returned
  /\ ~args.diagonal
  /\ ValidEndpoints
  /\ Blocked(nodes) # {}
  /\ Len(ret) - 1 = Distance(StartPos, EndPos, FALSE)
  /\ Len(ret) - 1 > Abs(args.startX - args.endX) + Abs(args.startY - args.endY)

\* C4: on a grid without blocked cells and with diagonal = false, the path
\* between in-bounds endpoints has |sx-ex| + |sy-ey| steps; on the 5x5 grid
\* from (0,0) to (4,4) it has 9 coordinates, the end cell's g is 8 and x + y
\* never decreases along it.
OpenSearchNeverExhausts ==
  (pc = "loop" /\ OpenCells = DOMAIN nodes) => Len(openSet) > 0

C4_OpenGridManhattan ==
  /\ OpenSearchNeverExhausts
  /\ (Returned /\ ~args.diagonal /\ OpenCells = DOMAIN nodes
       /\ InGrid(args.startX, args.startY) /\ InGrid(args.endX, args.endY))
    => /\ outcome = "returned"
       /\ Len(ret) - 1 = Abs(args.startX - args.endX)
                         + Abs(args.startY - args.endY)
       /\ (width = 5 /\ height = 5 /\ StartPos = <<0, 0>>
             /\ EndPos = <<4, 4>>)
            => /\ Len(ret) = 9
               /\ nodes[<<4, 4>>].g = 8
               /\ \A i \in 1..(Len(ret) - 1) :
                    ret[i + 1].x + ret[i + 1].y >= ret[i].x + ret[i].y

C4_Witness ==
  /\ Returned
  /\ ~args.diagonal
  /\ width = 5
  /\ height = 5
  /\ StartPos = <<0, 0>>
  /\ EndPos = <<4, 4>>
  /\ Len(ret) = 9

\* C5: findPath from a walkable cell to itself returns exactly that one
\* coordinate, in both movement modes, without expanding a neighbor: the
\* closed set stays empty and no cell has a parent.
C5_SameCellSingleton ==
  (Returned /\ StartPos = EndPos /\ OpenCell(args.startX, args.startY))
    => /\ outcome = "returned"
       /\ ret = << [x |-> args.startX, y |-> args.startY] >>
       /\ closedSet = {}
       /\ \A c \in DOMAIN nodes : nodes[c].parent = Null

C5_Witness ==
  /\ Returned
  /\ StartPos = EndPos
  /\ OpenCell(args.startX, args.startY)
  /\ args.diagonal
  /\ Len(ret) = 1
  /\ Cardinality(OpenCells) > 1

\* C6: consecutive coordinates of a returned path differ by one permitted
\* step: (1,0) or (0,1), and (1,1) only when diagonal = true.
C6_Contiguous ==
  Returned =>
    \A i \in 1..(Len(ret) - 1) :
      StepAllowed(Pos(ret[i]), Pos(ret[i + 1]), args.diagonal)

C6_Witness ==
  /\ Returned
  /\ args.diagonal
  /\ Len(ret) >= 3
  /\ \E i \in 1..(Len(ret) - 1) :
       Abs(ret[i].x - ret[i + 1].x) = 1 /\ Abs(ret[i].y - ret[i + 1].y) = 1

\* C7: every coordinate of a returned path is in bounds and names a cell
\* that is walkable at the time of the call.
C7_PathCellsWalkable ==
  Returned => \A i \in 1..Len(ret) : OpenCell(ret[i].x, ret[i].y)

C7_Witness ==
  /\ Returned
  /\ Len(ret) >= 4
  /\ OpenCells # DOMAIN nodes
  /\ \A i \in 1..Len(ret) : OpenCell(ret[i].x, ret[i].y)

\* C8: a non-empty returned path starts with the start coordinate and ends
\* with the end coordinate.
C8_EndpointsInOrder ==
  (Returned /\ ret # <<>>)
    => /\ Pos(ret[1]) = StartPos
       /\ Pos(ret[Len(ret)]) = EndPos

C8_Witness ==
  /\ Returned
  /\ Len(ret) >= 3
  /\ Pos(ret[1]) = StartPos
  /\ Pos(ret[Len(ret)]) = EndPos
  /\ StartPos # EndPos

\* C9: a findPath call that directly follows a findPath call with the same
\* arguments returns the same path.
C9_RepeatedQuerySameResult ==
  (Returned /\ prev.valid) => (outcome = "returned" /\ ret = prev.ret)

C9_Witness ==
  /\ Returned
  /\ prev.valid
  /\ Len(ret) >= 3
  /\ ret = prev.ret

\* C10: setWalkable(x, y, v) changes nothing when (x, y) is out of bounds and
\* otherwise only the walkable flag of cell (x, y), which becomes v; a step
\* of findPath changes no walkable flag, no coordinate and neither width nor
\* height.
SetWalkableFrame(x, y, v) ==
  /\ width' = width
  /\ height' = height
  /\ DOMAIN nodes' = DOMAIN nodes
  /\ \A c \in DOMAIN nodes :
       IF c = <<x, y>>
         THEN nodes'[c] = [nodes[c] EXCEPT !.walkable = v]
         ELSE nodes'[c] = nodes[c]

FindPathFrame ==
  /\ width' = width
  /\ height' = height
  /\ DOMAIN nodes' = DOMAIN nodes
  /\ \A c \in DOMAIN nodes :
       /\ nodes'[c].walkable = nodes[c].walkable
       /\ nodes'[c].x = nodes[c].x
       /\ nodes'[c].y = nodes[c].y

C10_Frame ==
  [][/\ lastOp' = "setWalkable" =>
          \A p \in SeqPositions, v \in BOOLEAN :
            SetWalkable(p[1], p[2], v) => SetWalkableFrame(p[1], p[2], v)
     /\ lastOp' = "findPath" => FindPathFrame]_vars

C10_Witness ==
  /\ lastOp = "setWalkable"
  /\ outcome = "returned"
  /\ OpenCells # DOMAIN nodes
  /\ \E c \in DOMAIN nodes : nodes[c].parent # Null /\ nodes[c].g > 0

\* C11: with diagonal = true the search can return a path with more steps
\* than the fewest-step 8-directional path: on the 4x3 grid whose only
\* blocked cell is (1,1), findPath(0, 2, 3, 0, true) returns 4 steps where
\* 3 suffice.
C11_DiagonalSuboptimal ==
  (Returned /\ width = 4 /\ height = 3 /\ args.diagonal
     /\ DOMAIN nodes \ OpenCells = {<<1, 1>>}
     /\ StartPos = <<0, 2>> /\ EndPos = <<3, 0>>)
    => /\ outcome = "returned"
       /\ Distance(StartPos, EndPos, TRUE) = 3
       /\ Len(ret) - 1 = 4
       /\ Len(ret) - 1 > Distance(StartPos, EndPos, TRUE)

C11_Witness ==
  /\ Returned
  /\ width = 4
  /\ height = 3
  /\ args.diagonal
  /\ DOMAIN nodes \ OpenCells = {<<1, 1>>}
  /\ StartPos = <<0, 2>>
  /\ EndPos = <<3, 0>>
  /\ Len(ret) = 5

\* C12: findPath terminates: an iteration of the loop either returns or moves
\* exactly one cell, the selected one, from the open set to the closed set;
\* no closed cell is in the open set afterwards; an iteration starts with
\* fewer closed cells than there are walkable cells, so that there are at
\* most that many iterations; and an empty open set ends the call with the
\* empty sequence.
MovedToClosed ==
  /\ pc' = "loop"
  /\ Includes(openSet, current')
  /\ current' \notin closedSet
  /\ closedSet' = closedSet \cup {current'}
  /\ ~Includes(openSet', current')
  /\ \A i \in 1..Len(openSet) :
       openSet[i] # current' => Includes(openSet', openSet[i])

IterationReturns == pc' = "idle" /\ outcome' = "returned"

C12_LoopTerminates ==
  [][pc = "loop" =>
       IF Len(openSet) = 0
         THEN IterationReturns /\ ret' = <<>>
         ELSE /\ Cardinality(closedSet) < Cardinality(OpenCells)
              /\ closedSet \subseteq OpenCells
              /\ IterationReturns \/ MovedToClosed
              /\ \A c \in closedSet' : ~Includes(openSet', c)]_vars

C12_Witness ==
  /\ Returned
  /\ ret # <<>>
  /\ Cardinality(OpenCells) >= 4
  /\ Cardinality(closedSet) + 1 = Cardinality(OpenCells)

\* C13: during a search the parent references form an acyclic chain rooted at
\* the start cell: the start cell has no parent; every other cell that was
\* added to the open set has a parent in the closed set with g one more than
\* its parent's; following the parents from a discovered cell reaches the
\* start cell in exactly g steps; and the returned path has end.g + 1
\* coordinates.
Searching == lastOp = "findPath" /\ startNode # Null /\ endNode # Null

Discovered == closedSet \cup {openSet[i] : i \in 1..Len(openSet)}

\* The number of parent references from node c to the node without parent,
\* or -1 when more than fuel references are followed.
RECURSIVE ChainLength(_, _)
ChainLength(c, fuel) ==
  IF nodes[c].parent = Null THEN 0
  ELSE IF fuel = 0 THEN -1
  ELSE LET rest == ChainLength(nodes[c].parent, fuel - 1)
       IN  IF rest < 0 THEN -1 ELSE rest + 1

RECURSIVE ChainRoot(_, _)
ChainRoot(c, fuel) ==
  IF nodes[c].parent = Null \/ fuel = 0 THEN c
  ELSE ChainRoot(nodes[c].parent, fuel - 1)

C13_ParentChain ==
  Searching =>
    /\ nodes[startNode].parent = Null
    /\ nodes[startNode].g = 0
    /\ \A c \in Discovered \ {startNode} :
         /\ nodes[c].parent \in closedSet
         /\ nodes[c].g = nodes[nodes[c].parent].g + 1
    /\ \A c \in Discovered :
         /\ ChainLength(c, Cardinality(DOMAIN nodes)) = nodes[c].g
         /\ ChainRoot(c, Cardinality(DOMAIN nodes)) = startNode
    /\ (pc = "idle" /\ current = endNode)
         => (outcome = "returned" /\ Len(ret) = nodes[endNode].g + 1)

C13_Witness ==
  /\ Searching
  /\ pc = "idle"
  /\ current = endNode
  /\ Len(ret) >= 4
  /\ Len(ret) = nodes[endNode].g + 1
  /\ Cardinality(Discovered) > Len(ret)

\* C14: with diagonal = false, the cell an iteration selects has g equal to
\* the length of a shortest 4-directional path from the start cell to it, and
\* the g and parent of a cell in the closed set never change for the rest of
\* the search.
ClosedFrozen ==
  \A c \in closedSet :
    /\ nodes'[c].g = nodes[c].g
    /\ nodes'[c].parent = nodes[c].parent

C14_SelectedIsFinal ==
  [][(pc = "loop" /\ Len(openSet) > 0 /\ ~args.diagonal) =>
       /\ Includes(openSet, current')
       /\ nodes[current'].g = Distance(StartPos, current', FALSE)
       /\ nodes'[current'].g = nodes[current'].g
       /\ ClosedFrozen]_vars

C14_Witness ==
  /\ Searching
  /\ ~args.diagonal
  /\ current # Null
  /\ Cardinality(closedSet) >= 3
  /\ nodes[current].g = 4
  /\ Distance(StartPos, current, FALSE) = 4
  /\ Abs(current[1] - StartPos[1]) + Abs(current[2] - StartPos[2]) = 2

\* C15: the cell an iteration selects has the minimum f among the cells of
\* the open set, and among the cells with that minimum f it is the one at
\* the lowest index of the open set.
FirstMinimum(i) ==
  /\ \A j \in 1..Len(openSet) : nodes[openSet[j]].f >= nodes[openSet[i]].f
  /\ \A j \in 1..(i - 1) : nodes[openSet[j]].f > nodes[openSet[i]].f

C15_SelectsFirstMinimum ==
  [][(pc = "loop" /\ Len(openSet) > 0) =>
       \E i \in 1..Len(openSet) :
         /\ openSet[i] = current'
         /\ FirstMinimum(i)]_vars

\* The cell just selected tied on f with a cell that was in the open set
\* before the iteration (its parent is an earlier cell) and is still there.
C15_Witness ==
  /\ Searching
  /\ pc = "loop"
  /\ current # Null
  /\ \E i \in 1..Len(openSet) :
       /\ nodes[openSet[i]].f = nodes[current].f
       /\ nodes[openSet[i]].parent # current

\* C16: a neighbor that is already in the open set when the expanded cell
\* reaches it has its parent, g, h and f rewritten only if current.g + 1 is
\* strictly less than its g; otherwise (exact ties included) the four fields
\* are unchanged.  The g of a cell that has entered the open set never
\* increases during the search.
ScratchOf(n) == <<n.parent, n.g, n.h, n.f>>

\* Cell c of the open set is a neighbor of the cell the step expands.
ReEncountered(c) ==
  /\ pc' = "loop"
  /\ c # current'
  /\ StepAllowed(current', c, args.diagonal)

C16_RewriteOnlyIfShorter ==
  [][pc = "loop" =>
       /\ \A c \in Discovered : nodes'[c].g <= nodes[c].g
       /\ \A i \in 1..Len(openSet) :
            LET c == openSet[i]
                tentativeG == nodes[current'].g + 1
            IN  IF ReEncountered(c) /\ tentativeG < nodes[c].g
                  THEN /\ nodes'[c].parent = current'
                       /\ nodes'[c].g = tentativeG
                       /\ nodes'[c].f = nodes'[c].g + nodes'[c].h
                       /\ nodes'[c].h = nodes[c].h
                  ELSE ScratchOf(nodes'[c]) = ScratchOf(nodes[c])]_vars

\* The cell just expanded lowered the g of a cell that an earlier expansion
\* (that of a closed neighbor of the cell) had put in the open set.
C16_Witness ==
  /\ Searching
  /\ pc = "loop"
  /\ current # Null
  /\ \E i \in 1..Len(openSet) :
       /\ nodes[openSet[i]].parent = current
       /\ \E c \in closedSet \ {current} :
            StepAllowed(c, openSet[i], args.diagonal)

\* The cell just expanded is next to a cell of the open set that keeps the
\* parent and the g another cell gave it, g being what the expanded cell
\* offers.
C16_TieKept ==
  /\ Searching
  /\ pc = "loop"
  /\ current # Null
  /\ \E i \in 1..Len(openSet) :
       /\ StepAllowed(current, openSet[i], args.diagonal)
       /\ nodes[openSet[i]].parent # current
       /\ nodes[openSet[i]].g = nodes[current].g + 1

\* C17: findPath resets the scratch state of every cell before anything
\* else: after a call that returned early because an endpoint is out of
\* bounds or unwalkable, every cell of the grid, unwalkable cells and cells
\* an earlier search touched included, has g = h = f = 0 and no parent.
Clean(n) == n.g = 0 /\ n.h = 0 /\ n.f = 0 /\ n.parent = Null

C17_EarlyReturnResets ==
  (Returned /\ ~ValidEndpoints) =>
    /\ outcome = "returned"
    /\ \A c \in DOMAIN nodes : Clean(nodes[c])

\* The call found an unwalkable cell with the parent of an earlier search.
C17_Witness ==
  /\ Returned
  /\ ~ValidEndpoints
  /\ prev.stale
  /\ Blocked(nodes) # {}
  /\ \A c \in DOMAIN nodes : Clean(nodes[c])

\* C18: the result of findPath depends only on the walkability map and the
\* arguments: after any sequence of setWalkable and findPath calls, findPath
\* returns the path it returns on a freshly constructed grid with the same
\* walkability map.
FreshNodes ==
  [c \in DOMAIN nodes |-> Node(c[1], c[2], nodes[c].walkable)]

\* The loop of findPath run to its end from the search state st.
RECURSIVE FreshSearch(_, _, _)
FreshSearch(st, goal, diagonal) ==
  IF Len(st.openSet) = 0
    THEN <<>>
    ELSE LET currentIndex == SelectIndex(st.nodes, st.openSet)
             cur == st.openSet[currentIndex]
             closed1 == st.closedSet \cup {cur}
             next == VisitNeighbors(
                       [nodes |-> st.nodes,
                        openSet |-> Splice(st.openSet, currentIndex)],
                       GetNeighbors(st.nodes, cur, diagonal), 1, cur,
                       closed1, goal)
         IN  IF IsGoal(cur, goal)
               THEN ReconstructPath(st.nodes, goal)
               ELSE FreshSearch([nodes |-> next.nodes,
                                 openSet |-> next.openSet,
                                 closedSet |-> closed1], goal, diagonal)

\* What findPath returns for the arguments a on the fresh grid.
FreshResult(a) ==
  LET ns == Reset(FreshNodes)
      s == GetNode(ns, a.startX, a.startY)
      e == GetNode(ns, a.endX, a.endY)
  IN  IF s = Null \/ e = Null
        THEN <<>>
        ELSE FreshSearch(
               [nodes |-> [ns EXCEPT ![s] =
                             [@ EXCEPT !.g = 0,
                                       !.h = Heuristic(ns, s, e),
                                       !.f = Heuristic(ns, s, e)]],
                openSet |-> <<s>>,
                closedSet |-> {}], e, a.diagonal)

C18_HistoryIndependent ==
  Returned => (outcome = "returned" /\ ret = FreshResult(args))

\* A path was found by a call that started while an unwalkable cell still
\* held the parent an earlier search gave it.
C18_Witness ==
  /\ Returned
  /\ outcome = "returned"
  /\ prev.stale
  /\ Len(ret) >= 3
  /\ ret = FreshResult(args)

\* C19: getNeighbors(cell, diagonal) returns exactly the in-bounds, walkable
\* cells among the cell's candidate offsets, each at most once, in the order
\* N, E, S, W and, only when diagonal is true, then NE, SE, SW, NW; at most
\* 4 cells when diagonal is false and at most 8 when it is true.  getNode(x,
\* y) returns a cell if and only if (x, y) is in bounds and walkable.
Offsets(diagonal) ==
  IF diagonal
    THEN <<  <<0, -1>>, <<1, 0>>, <<0, 1>>, <<-1, 0>>,
             <<1, -1>>, <<1, 1>>, <<-1, 1>>, <<-1, -1>>  >>
    ELSE <<  <<0, -1>>, <<1, 0>>, <<0, 1>>, <<-1, 0>>  >>

\* The open cells at the offsets of c, in the order of the offsets.
RECURSIVE OpenAtOffsets(_, _, _)
OpenAtOffsets(c, offsets, i) ==
  IF i > Len(offsets)
    THEN <<>>
    ELSE LET p == <<c[1] + offsets[i][1], c[2] + offsets[i][2]>>
         IN  (IF OpenCell(p[1], p[2]) THEN <<p>> ELSE <<>>)
               \o OpenAtOffsets(c, offsets, i + 1)

NoRepeat(seq) ==
  \A i \in 1..Len(seq) : \A j \in 1..Len(seq) : i # j => seq[i] # seq[j]

NeighborsAsSpecified(c, d) ==
  /\ ~GetNeighborsThrows(nodes, c, d)
  /\ GetNeighbors(nodes, c, d) = OpenAtOffsets(c, Offsets(d), 1)
  /\ NoRepeat(OpenAtOffsets(c, Offsets(d), 1))
  /\ Len(OpenAtOffsets(c, Offsets(d), 1)) <= (IF d THEN 8 ELSE 4)

\* C19: getNeighbors returns the open cells at the offsets in their fixed
\* order, none twice, at most 4 or 8, and getNode returns a cell exactly for
\* an in-bounds walkable position.  Stated for every cell, mode and
\* coordinate of every grid before its query (the functions read only the
\* size and the walkable flags), and for the expanded cell and the endpoints
\* during and after the query.
C19_NeighborsAndLookup ==
  /\ lastOp # "findPath" =>
       /\ \A c \in DOMAIN nodes : \A d \in BOOLEAN :
            NeighborsAsSpecified(c, d)
       /\ \A x \in Coords(width) : \A y \in Coords(height) :
            /\ ~IsWalkableThrows(nodes, x, y)
            /\ GetNode(nodes, x, y) # Null <=> OpenCell(x, y)
            /\ OpenCell(x, y) => GetNode(nodes, x, y) = <<x, y>>
  /\ (lastOp = "findPath" /\ current # Null) =>
       GetNeighbors(nodes, current, args.diagonal)
         = OpenAtOffsets(current, Offsets(args.diagonal), 1)
  /\ lastOp = "findPath" =>
       /\ startNode # Null <=> OpenCell(args.startX, args.startY)
       /\ endNode # Null <=> OpenCell(args.endX, args.endY)
       /\ startNode # Null => startNode = StartPos
       /\ endNode # Null => endNode = EndPos

\* The search has expanded a cell inside the grid whose eight candidates are
\* all open, after a cell that has a blocked candidate, and every neighbor
\* of the two cells is in the open or the closed set.
C19_Witness ==
  /\ pc = "loop"
  /\ current # Null
  /\ args.diagonal
  /\ Len(GetNeighbors(nodes, current, TRUE)) = 8
  /\ Len(GetNeighbors(nodes, current, FALSE)) = 4
  /\ \E c \in closedSet : \E b \in Blocked(nodes) : StepAllowed(c, b, TRUE)
  /\ \A c \in closedSet : \A n \in OpenCells :
       StepAllowed(c, n, TRUE) => (Includes(openSet, n) \/ n \in closedSet)

\* The 4-directional search has expanded a cell with four neighbors.
C19_FourNeighbors ==
  /\ pc = "loop"
  /\ current # Null
  /\ ~args.diagonal
  /\ Len(GetNeighbors(nodes, current, FALSE)) = 4
  /\ Cardinality(closedSet) + Len(openSet) >= 5

\* C20: no path returned by findPath contains the same coordinate twice, in
\* both movement modes and for every walkability map.
C20_PathIsSimple ==
  Returned =>
    /\ outcome = "returned"
    /\ \A i \in 1..Len(ret) : \A j \in (i + 1)..Len(ret) : ret[i] # ret[j]

\* A returned path leaves a row and comes back to it.
C20_Witness ==
  /\ Returned
  /\ outcome = "returned"
  /\ Len(ret) >= 5
  /\ \E i \in 1..Len(ret) : \E k \in (i + 1)..Len(ret) :
       \E j \in (k + 1)..Len(ret) :
         /\ ret[i].y = ret[j].y
         /\ ret[k].y # ret[i].y
         /\ ret[i].x # ret[j].x
====
